---- MODULE Spec2Model ----
(***************************************************************************)
(* Model of add_staves/main.py: the `run` command of add-staves.           *)
(*                                                                         *)
(* A run parses the --combining text (groups_parser), cleans it against    *)
(* the page count (groups_callback), packs the systems greedily when no    *)
(* list was given, normalises the groups once more, and lays every group   *)
(* out on one page (layout_systems).                                       *)
(*                                                                         *)
(* Lengths are PDF points.  The paddings that layout_systems adds are      *)
(* quotients by 3 * len(systems); the model keeps them exact by recording  *)
(* every vertical position of a page as a numerator over the page's        *)
(* denominator `den` = 3 * len(systems).  Floating-point rounding is not   *)
(* modelled.                                                               *)
(***************************************************************************)
EXTENDS Integers, Sequences, FiniteSets, TLC

\* ------------------------------------------------------------------ bounds
MaxUnits == 3
MaxTokens == 2

\* --------------------------------------------------------------- constants
A4Height == 842
A4Width == 595
SideMargin == 30
MaxBottomExtra == 30

\* ------------------------------------------------------------------ inputs
\* One page of the cropped score: the cropbox of a system.
Shapes ==
  { [width |-> 500,  height |-> 200],
    [width |-> 500,  height |-> 900],
    [width |-> 1070, height |-> 1000] }

SeqsUpTo(S, n) == UNION { [1..k -> S] : k \in 0..n }

Scores == SeqsUpTo(Shapes, MaxUnits)

\* The pieces of a --combining text and the characters that separate them.
Tokens == {"0", "1", "2", "x"}
Separators == {",", " "}

\* The value of the option: absent, or a text of tokens and separators
\* (the text with no token is the empty string).
Texts ==
  { [given |-> FALSE, toks |-> <<>>, seps |-> <<>>] }
  \cup
  { [given |-> TRUE, toks |-> t, seps |-> s] :
      <<t, s>> \in UNION { [1..k -> Tokens] \X [1..(IF k = 0 THEN 0 ELSE k - 1) -> Separators]
                           : k \in 0..MaxTokens } }

\* The page layout options of `run` (typer clamps the numbers at 0).
\* top_margin, bottom_margin, top_padding, bottom_padding: the defaults, no
\* paddings, no margins.
Spacings == { <<30, 30, 30, 10>>, <<30, 30, 0, 0>>, <<0, 0, 30, 10>> }
\* the height of the empty staves (staves.cropbox.height)
StaveHeights == { 50 }

PageLayouts ==
  { [top_margin |-> sp[1], bottom_margin |-> sp[2],
     top_padding |-> sp[3], bottom_padding |-> sp[4],
     stave_height |-> sh,
     ragged_bottom |-> rb, ragged_bottom_last |-> rbl,
     minimum_height |-> A4Height,
     left_margin |-> SideMargin, right_margin |-> SideMargin] :
      sp \in Spacings, sh \in StaveHeights, rb \in BOOLEAN, rbl \in BOOLEAN }

\* ----------------------------------------------------------------- helpers
RECURSIVE Sum(_)
Sum(s) == IF Len(s) = 0 THEN 0 ELSE Head(s) + Sum(Tail(s))

RECURSIVE SumHeights(_)
SumHeights(systems) ==
  IF Len(systems) = 0 THEN 0 ELSE Head(systems).height + SumHeights(Tail(systems))

\* list.pop(): the list without its last element
Pop(s) == SubSeq(s, 1, Len(s) - 1)

\* Optional[List[int]]
NoGroups == [isNone |-> TRUE, list |-> <<>>]
Some(l) == [isNone |-> FALSE, list |-> l]

\* PageLayout.printable_width
printable_width(page_layout) ==
  A4Width - page_layout.left_margin - page_layout.right_margin

\* PageLayout.calculate_stave_height
calculate_stave_height(page_layout) ==
  page_layout.stave_height + page_layout.bottom_padding + page_layout.top_padding

\* ------------------------------------------------------------ groups_parser
\* int(num): the literals that convert, and their values
IsIntLiteral(tok) == tok \in {"0", "1", "2"}
IntOf(tok) == CASE tok = "0" -> 0 [] tok = "1" -> 1 [] tok = "2" -> 2 [] OTHER -> 0

\* [int(num) for num in input.split(sep)]: the text is cut at every `sep`;
\* a piece converts when it is one integer literal, so a piece that still
\* holds the other separator, a non-number or nothing at all raises.
SplitParse(input, sep) ==
  LET ok == /\ Len(input.toks) > 0
            /\ \A i \in 1..Len(input.seps) : input.seps[i] = sep
            /\ \A i \in 1..Len(input.toks) : IsIntLiteral(input.toks[i])
  IN [ok |-> ok,
      numbers |-> IF ok THEN [i \in 1..Len(input.toks) |-> IntOf(input.toks[i])]
                        ELSE <<>>]

\* groups_parser that answers None for a text it cannot use
groups_parser_none_on_error(input) ==
  IF ~input.given THEN NoGroups
  ELSE
    LET comma == SplitParse(input, ",")
        space == SplitParse(input, " ")
        numbers1 == IF comma.ok THEN comma.numbers ELSE <<>>
        numbers == IF space.ok THEN space.numbers ELSE numbers1
    IN IF (comma.ok \/ space.ok) /\ \A i \in 1..Len(numbers) : numbers[i] > 0
         THEN Some(numbers) ELSE NoGroups

groups_parser(input) ==
  IF ~input.given THEN NoGroups
  ELSE
    LET comma == SplitParse(input, ",")
        space == SplitParse(input, " ")
        numbers1 == IF comma.ok THEN comma.numbers ELSE <<>>
        numbers == IF space.ok THEN space.numbers ELSE numbers1
    IN IF \A i \in 1..Len(numbers) : numbers[i] > 0 THEN Some(numbers) ELSE Some(<<>>)

\* ---------------------------------------------------------- groups_callback
\* while sum(groups) > page_count: groups.pop()
RECURSIVE PopWhileOver(_, _)
PopWhileOver(groups, page_count) ==
  IF Sum(groups) > page_count THEN PopWhileOver(Pop(groups), page_count) ELSE groups

\* groups_callback that leaves the remaining pages out
groups_callback_no_rest(page_count, groups) ==
  IF groups.isNone THEN NoGroups
  ELSE
    LET grouped_pages_count == Sum(groups.list) IN
    IF grouped_pages_count = 0 THEN Some(<<page_count>>)
    ELSE IF grouped_pages_count < page_count
      THEN groups
    ELSE IF grouped_pages_count > page_count
      THEN LET rest == PopWhileOver(groups.list, page_count)
           IN Some(Append(rest, page_count - Sum(rest)))
    ELSE groups

groups_callback(page_count, groups) ==
  IF groups.isNone THEN NoGroups
  ELSE
    LET grouped_pages_count == Sum(groups.list) IN
    IF grouped_pages_count = 0 THEN Some(<<page_count>>)
    ELSE IF grouped_pages_count < page_count
      THEN Some(Append(groups.list, page_count - grouped_pages_count))
    ELSE IF grouped_pages_count > page_count
      THEN LET rest == PopWhileOver(groups.list, page_count)
           IN Some(Append(rest, page_count - Sum(rest)))
    ELSE groups

\* ----------------------------------------------------- calculate_min_height
calculate_min_height(systems, page_layout) ==
  SumHeights(systems)
  + page_layout.top_margin
  + page_layout.bottom_margin
  + Len(systems)
    * (page_layout.stave_height + page_layout.top_padding + page_layout.bottom_padding)

\* ----------------------------------------------------------- layout_systems
\* dynamic_layout that is not overwritten on the last page
dynamic_layout_no_last(minimum_height, page_layout, is_last_page) ==
  minimum_height < A4Height /\ ~page_layout.ragged_bottom

\* flag to dynamically layout the elements, overwritten on the last page
dynamic_layout(minimum_height, page_layout, is_last_page) ==
  IF is_last_page
    THEN minimum_height < A4Height /\ ~page_layout.ragged_bottom_last
    ELSE minimum_height < A4Height /\ ~page_layout.ragged_bottom

\* canvas_height that always takes the height of the content
canvas_height_content(minimum_height, page_layout) ==
  minimum_height

\* the height of the blank page
canvas_height(minimum_height, page_layout) ==
  IF minimum_height > page_layout.minimum_height
    THEN minimum_height
    ELSE page_layout.minimum_height

\* space that needs to be dynamically allocated
dynamic_spacing(minimum_height, page_layout, dynamic) ==
  IF dynamic
    THEN page_layout.minimum_height - minimum_height
         - page_layout.bottom_margin - page_layout.top_margin
    ELSE 0

\* additional_bottom_padding, as a numerator over den = 3 * len(systems):
\* spacing / den, and 30 when that exceeds 30
additional_bottom_padding(spacing, den) ==
  IF spacing > MaxBottomExtra * den THEN MaxBottomExtra * den ELSE spacing

\* additional_top_padding, as a numerator over den = 3 * count:
\* (spacing - additional_bottom_padding * count) / count
additional_top_padding(spacing, bottom_extra) ==
  3 * spacing - bottom_extra

\* The loop over the systems: every system and, beneath it, the staves are
\* merged into the page at the cursor `height`, which goes down by the
\* element and by the padding after it.  Positions are numerators over den.
RECURSIVE place_systems(_, _, _, _, _, _)
place_systems(systems, height, den, page_layout, bottom_extra, top_extra) ==
  IF Len(systems) = 0 THEN <<>>
  ELSE
    LET system == Head(systems)
        h1 == height - den * system.height
        h2 == h1 - (den * page_layout.bottom_padding + bottom_extra)
        h3 == h2 - den * page_layout.stave_height
        h4 == h3 - (den * page_layout.top_padding + top_extra)
    IN << [kind |-> "system", top |-> height, bottom |-> h1, width |-> system.width],
          [kind |-> "staves", top |-> h2, bottom |-> h3, width |-> 0] >>
       \o place_systems(Tail(systems), h4, den, page_layout, bottom_extra, top_extra)

\* The cursor `height` after the loop over the systems, as a numerator over
\* den: every system takes its height, the bottom padding, the staves and
\* the top padding, each padding with its additional part.
RECURSIVE end_cursor(_, _, _, _, _, _)
end_cursor(systems, height, den, page_layout, bottom_extra, top_extra) ==
  IF Len(systems) = 0 THEN height
  ELSE end_cursor(Tail(systems),
                  height - den * Head(systems).height
                         - (den * page_layout.bottom_padding + bottom_extra)
                         - den * page_layout.stave_height
                         - (den * page_layout.top_padding + top_extra),
                  den, page_layout, bottom_extra, top_extra)

\* The page that layout_systems adds to the writer.  With no system the
\* blank page is added and the division by 3 * len(systems) raises; the
\* page is then marked `raised` and nothing is placed on it.
layout_systems(systems, page_layout, is_last_page, first) ==
  LET minimum_height == calculate_min_height(systems, page_layout)
      dynamic == dynamic_layout(minimum_height, page_layout, is_last_page)
      canvas == canvas_height(minimum_height, page_layout)
      den == 3 * Len(systems)
      spacing == dynamic_spacing(minimum_height, page_layout, dynamic)
      bottom_extra == additional_bottom_padding(spacing, den)
      top_extra == additional_top_padding(spacing, bottom_extra)
      raised == Len(systems) = 0
  IN [first |-> first, count |-> Len(systems),
      is_last_page |-> is_last_page,
      minimum_height |-> minimum_height,
      dynamic |-> dynamic,
      canvas |-> canvas,
      den |-> den,
      bottom_extra |-> IF raised THEN 0 ELSE bottom_extra,
      top_extra |-> IF raised THEN 0 ELSE top_extra,
      raised |-> raised,
      start |-> den * (canvas - page_layout.top_margin),
      cursor |-> IF raised THEN den * (canvas - page_layout.top_margin)
                 ELSE end_cursor(systems, den * (canvas - page_layout.top_margin),
                                 den, page_layout, bottom_extra, top_extra),
      placed |-> IF raised THEN <<>>
                 ELSE place_systems(systems, den * (canvas - page_layout.top_margin),
                                    den, page_layout, bottom_extra, top_extra)]

\* ------------------------------------------------- run: automatic grouping
\* system.scale_by(factor) with factor = num / den: the cropbox is scaled
\* uniformly
scale_by(system, num, den) ==
  [width |-> (system.width * num) \div den, height |-> (system.height * num) \div den]

\* Scale the system if it exceeds the width of a DIN A4 page
scaled(system, page_layout) ==
  IF system.width > printable_width(page_layout)
    THEN scale_by(system, printable_width(page_layout), system.width)
    ELSE system

\* One iteration of `for system in score.pages` on the packing state
\* (groups, height, current_group_size); `system` is already scaled.
pack_system(st, system, page_layout) ==
  LET new_height == system.height + calculate_stave_height(page_layout) IN
  IF st.height + new_height <= page_layout.minimum_height
    THEN [groups |-> st.groups,
          height |-> st.height + new_height,
          current_group_size |-> st.current_group_size + 1]
  ELSE IF st.height + new_height > page_layout.minimum_height /\ st.current_group_size = 0
    THEN [groups |-> Append(st.groups, 1),
          height |-> page_layout.top_margin + page_layout.bottom_margin,
          current_group_size |-> st.current_group_size]
  ELSE [groups |-> Append(st.groups, st.current_group_size),
        height |-> page_layout.top_margin + page_layout.bottom_margin,
        current_group_size |-> 1]

\* --------------------------------------------------------------------- run
VARIABLES
  pc,          \* the position in run
  combining,   \* the text of the --combining option
  pages,       \* score.pages: the cropbox of every system
  page_layout, \* the PageLayout built from the options
  groups,      \* the local `groups`
  packing,     \* height and current_group_size of the automatic grouping
  next_system, \* the position of `for system in score.pages`
  current_system_number,
  index,       \* the position of `for index, group in enumerate(groups)`
  writer,      \* the pages added to the PdfWriter
  output       \* the pages written to disk

vars == << pc, combining, pages, page_layout, groups, packing, next_system,
           current_system_number, index, writer, output >>

Init ==
  /\ pc = "parse"
  /\ combining \in Texts
  /\ pages \in Scores
  /\ page_layout \in PageLayouts
  /\ groups = NoGroups
  /\ packing = [height |-> 0, current_group_size |-> 0]
  /\ next_system = 0
  /\ current_system_number = 0
  /\ index = 0
  /\ writer = <<>>
  /\ output = <<>>

\* typer converts the option with parser=groups_parser; run then cleans the
\* groups against the page count and, when none were given, starts packing.
Parse ==
  /\ pc = "parse"
  /\ LET cleaned == groups_callback(Len(pages), groups_parser(combining)) IN
       IF cleaned.isNone
         THEN /\ groups' = Some(<<>>)
              /\ packing' = [height |-> page_layout.top_margin + page_layout.bottom_margin,
                             current_group_size |-> 0]
              /\ pc' = "pack"
         ELSE /\ groups' = cleaned
              /\ packing' = packing
              /\ pc' = "normalize"
  /\ UNCHANGED << combining, pages, page_layout, next_system,
                  current_system_number, index, writer, output >>

\* One iteration of the loop that fits systems on A4 pages.
Pack ==
  /\ pc = "pack"
  /\ next_system < Len(pages)
  /\ LET system == scaled(pages[next_system + 1], page_layout)
         st == pack_system([groups |-> groups.list, height |-> packing.height,
                            current_group_size |-> packing.current_group_size],
                           system, page_layout)
     IN /\ pages' = [pages EXCEPT ![next_system + 1] = system]
        /\ groups' = Some(st.groups)
        /\ packing' = [height |-> st.height, current_group_size |-> st.current_group_size]
  /\ next_system' = next_system + 1
  /\ UNCHANGED << pc, combining, page_layout, current_system_number, index, writer, output >>

\* The loop is over.
PackDone ==
  /\ pc = "pack"
  /\ next_system = Len(pages)
  /\ pc' = "normalize"
  /\ UNCHANGED << combining, pages, page_layout, groups, packing, next_system,
                  current_system_number, index, writer, output >>

\* groups = groups_callback(score, groups), before the groupings are followed
Normalize ==
  /\ pc = "normalize"
  /\ groups' = groups_callback(Len(pages), groups)
  /\ pc' = "layout"
  /\ UNCHANGED << combining, pages, page_layout, packing, next_system,
                  current_system_number, index, writer, output >>

\* One iteration of the loop that follows the groupings: the systems of the
\* group are laid out on a new page.
Layout ==
  /\ pc = "layout"
  /\ index < Len(groups.list)
  /\ LET group == groups.list[index + 1]
         systems == SubSeq(pages, current_system_number + 1, current_system_number + group)
         page == layout_systems(systems, page_layout,
                                index = Len(groups.list) - 1, current_system_number)
     IN /\ writer' = Append(writer, page)
        /\ pc' = IF page.raised THEN "error" ELSE "layout"
  /\ current_system_number' = current_system_number + groups.list[index + 1]
  /\ index' = index + 1
  /\ UNCHANGED << combining, pages, page_layout, groups, packing, next_system, output >>

\* write to disk
Write ==
  /\ pc = "layout"
  /\ index = Len(groups.list)
  /\ output' = writer
  /\ pc' = "done"
  /\ UNCHANGED << combining, pages, page_layout, groups, packing, next_system,
                  current_system_number, index, writer >>

Next == Parse \/ Pack \/ PackDone \/ Normalize \/ Layout \/ Write

Spec == Init /\ [][Next]_vars

\* The run has resolved its groups.
Resolved == pc \in {"layout", "done", "error"}

TypeOK ==
  /\ pc \in {"parse", "pack", "normalize", "layout", "done", "error"}
  /\ groups.isNone \in BOOLEAN
  /\ Len(writer) <= Len(groups.list)

\* ------------------------------------------------------------------ claims
\* The systems of the k-th group: the slice run takes for it.
GroupStart(k) == Sum(SubSeq(groups.list, 1, k - 1))
GroupSystems(k) == SubSeq(pages, GroupStart(k) + 1, GroupStart(k) + groups.list[k])

\* The groups the automatic grouping gives a score: the loop over the
\* scaled systems, then groups_callback.
RECURSIVE pack_all(_, _, _)
pack_all(st, systems, layout) ==
  IF Len(systems) = 0 THEN st
  ELSE pack_all(pack_system(st, scaled(Head(systems), layout), layout), Tail(systems), layout)

automatic_groups(score, layout) ==
  groups_callback(Len(score),
    Some(pack_all([groups |-> <<>>,
                   height |-> layout.top_margin + layout.bottom_margin,
                   current_group_size |-> 0], score, layout).groups)).list

\* The numbers groups_parser reads from the text, before it validates them.
ParsedNumbers(input) ==
  LET comma == SplitParse(input, ",")
      space == SplitParse(input, " ")
  IN IF space.ok THEN space.numbers ELSE IF comma.ok THEN comma.numbers ELSE <<>>

\* The text parses neither way, or holds an entry <= 0.
Malformed(input) ==
  /\ input.given
  /\ \/ ~SplitParse(input, ",").ok /\ ~SplitParse(input, " ").ok
     \/ \E i \in 1..Len(ParsedNumbers(input)) : ParsedNumbers(input)[i] <= 0

\* The ragged flag that counts for a page.
ActiveRagged(page) ==
  IF page.is_last_page THEN page_layout.ragged_bottom_last ELSE page_layout.ragged_bottom

\* C1: the groups run follows sum to the number of systems, and the slices
\* taken for them follow each other from system 0 to the last one, each as
\* long as its group, so no system is skipped or placed twice.
C1_GroupsCoverUnits ==
  Resolved =>
    /\ Sum(groups.list) = Len(pages)
    /\ \A k \in 1..Len(writer) :
         /\ writer[k].first = (IF k = 1 THEN 0 ELSE writer[k - 1].first + writer[k - 1].count)
         /\ writer[k].count = groups.list[k]
    /\ pc = "done" =>
         /\ Len(writer) = Len(groups.list)
         /\ current_system_number = Len(pages)

\* A finished run whose explicit list exceeded the page count and was cut
\* back to several groups.
C1_Witness ==
  /\ pc = "done"
  /\ combining.given
  /\ Sum(ParsedNumbers(combining)) > Len(pages)
  /\ Len(writer) >= 2
  /\ \A k \in 1..Len(writer) : writer[k].count >= 1

\* C2: with automatic grouping every group of two or more systems needs at
\* most the height of a DIN A4 page.
C2_AutoGroupsFitA4 ==
  (Resolved /\ ~combining.given) =>
    \A k \in 1..Len(groups.list) :
      groups.list[k] >= 2 => calculate_min_height(GroupSystems(k), page_layout) <= A4Height

\* C3: with one system or more, every group run follows holds one system
\* or more.
C3_GroupsNonEmpty ==
  (Resolved /\ Len(pages) >= 1) =>
    \A k \in 1..Len(groups.list) : groups.list[k] >= 1

\* C4: on a page laid out dynamically the additional paddings are not zero,
\* over all systems they add up to A4 height - minimum height, and the
\* additional bottom padding is at most 30.
C4_ExtrasFillSlack ==
  \A k \in 1..Len(writer) :
    LET page == writer[k] IN
    (~page.raised /\ page.minimum_height < A4Height /\ ~ActiveRagged(page)) =>
      /\ page.bottom_extra + page.top_extra # 0
      /\ page.count * (page.bottom_extra + page.top_extra)
           = page.den * (A4Height - page.minimum_height)
      /\ page.bottom_extra <= MaxBottomExtra * page.den

\* C5: on every page the elements are placed from top to bottom and none
\* reaches into the span of another.
C5_NoOverlap ==
  \A k \in 1..Len(writer) :
    \A i, j \in 1..Len(writer[k].placed) :
      i < j => writer[k].placed[i].bottom >= writer[k].placed[j].top

\* C6 (as claimed): a malformed --combining text gives the groups of the
\* automatic grouping.
C6_MalformedIsAutomatic ==
  (Resolved /\ Malformed(combining)) =>
    groups.list = automatic_groups(pages, page_layout)

\* C6 (amended): a malformed --combining text is read as the empty list, and
\* run puts all systems in one group.
C6_MalformedIsOneGroup ==
  (Resolved /\ Malformed(combining)) =>
    /\ groups_parser(combining) = Some(<<>>)
    /\ groups.list = << Len(pages) >>

\* A finished run on a malformed text whose score the automatic grouping
\* would have split into several groups.
C6_Witness ==
  /\ pc = "done"
  /\ Malformed(combining)
  /\ Len(automatic_groups(pages, page_layout)) >= 2
  /\ Len(output) = 1

\* C7: a score without systems raises no error and gives no page.
C7_EmptyScoreTolerated ==
  Len(pages) = 0 => (pc # "error" /\ writer = <<>>)

\* C8: every system placed on a page is at most as wide as the printable
\* width.
C8_PlacedFitsWidth ==
  \A k \in 1..Len(writer) :
    \A i \in 1..Len(writer[k].placed) :
      writer[k].placed[i].kind = "system" =>
        writer[k].placed[i].width <= printable_width(page_layout)

C10_CanvasHeight ==
  \A k \in 1..Len(writer) :
    /\ writer[k].canvas =
         (IF calculate_min_height(GroupSystems(k), page_layout) >= A4Height
            THEN calculate_min_height(GroupSystems(k), page_layout)
            ELSE A4Height)
    /\ writer[k].canvas >= A4Height

\* A finished run with a page higher than A4 and a page of A4 height.
C10_Witness ==
  /\ pc = "done"
  /\ \E k \in 1..Len(output) : output[k].canvas > A4Height
  /\ \E k \in 1..Len(output) :
       output[k].canvas = A4Height /\ output[k].minimum_height < A4Height

\* C11: on a page that is laid out dynamically or needs at least the A4
\* height, the cursor starts at canvas height - top_margin and, after the
\* last system and its staves, stands at bottom_margin.
C11_CursorEndsAtBottomMargin ==
  \A k \in 1..Len(writer) :
    LET page == writer[k] IN
    (~page.raised /\ (page.dynamic \/ page.minimum_height >= A4Height)) =>
      /\ page.start = page.den * (page.canvas - page_layout.top_margin)
      /\ page.cursor = page.den * page_layout.bottom_margin

====
